---------------------------- MODULE Spec2Model ----------------------------
(***************************************************************************)
(* Sparse recovery by accelerated proximal gradient descent (apgd), the    *)
(* group soft-thresholding operator (prox12norm), the bisection-tuned      *)
(* constrained solver (lscgnm) and the block driver (apgd_driver).         *)
(*                                                                         *)
(* Numbers.  The program computes in IEEE double precision.  The model     *)
(* computes on a binary fixed-point grid with FracBits fractional bits:    *)
(* the finite value v/Scale is the record Fin(v).  Every operation rounds  *)
(* its exact result to the grid, as every double operation rounds to the   *)
(* nearest double.  The non-finite doubles are kept: NaN and the two       *)
(* infinities, with the IEEE rules for x/0, 0/0, inf-inf, 0*inf and for    *)
(* comparisons with NaN (always false).                                    *)
(***************************************************************************)
EXTENDS Integers, Sequences, FiniteSets, TLC

\* number of fractional bits of the grid
FracBits == 10

Scale == 2 ^ FracBits

------------------------------------------------------------------------------
(* Scalars *)

Fin(v) == [k |-> "fin", v |-> v]
NaN == [k |-> "nan", v |-> 0]
PosInf == [k |-> "inf", v |-> 1]
NegInf == [k |-> "inf", v |-> -1]

IsFin(a) == a.k = "fin"
IsNaN(a) == a.k = "nan"
IsInf(a) == a.k = "inf"

Sign(n) == IF n > 0 THEN 1 ELSE IF n < 0 THEN -1 ELSE 0
Abs(n) == IF n < 0 THEN -n ELSE n
InfOf(s) == IF s >= 0 THEN PosInf ELSE NegInf

\* n/m rounded to the nearest integer (m > 0), halves away from zero
RoundDiv(n, m) == Sign(n) * ((2 * Abs(n) + m) \div (2 * m))

RECURSIVE SqrtSearch(_, _, _)
SqrtSearch(n, lo, hi) ==
    IF lo >= hi THEN lo
    ELSE LET mid == (lo + hi + 1) \div 2
         IN  IF mid * mid <= n THEN SqrtSearch(n, mid, hi)
             ELSE SqrtSearch(n, lo, mid - 1)

\* floor of the square root of n >= 0 (the bound 46340 keeps mid*mid in range)
ISqrt(n) == SqrtSearch(n, 0, IF n < 46340 THEN n ELSE 46340)

\* the square root of n >= 0 rounded to the nearest integer
RoundSqrt(n) == LET r == ISqrt(n) IN IF n - r * r > r THEN r + 1 ELSE r

FNeg(a) == IF IsFin(a) THEN Fin(-a.v) ELSE IF IsInf(a) THEN InfOf(-a.v) ELSE NaN

FAdd(a, b) ==
    IF IsNaN(a) \/ IsNaN(b) THEN NaN
    ELSE IF IsInf(a) THEN (IF IsInf(b) /\ b.v # a.v THEN NaN ELSE a)
    ELSE IF IsInf(b) THEN b
    ELSE Fin(a.v + b.v)

FSub(a, b) == FAdd(a, FNeg(b))

FMul(a, b) ==
    IF IsNaN(a) \/ IsNaN(b) THEN NaN
    ELSE IF IsInf(a) \/ IsInf(b)
         THEN (IF Sign(a.v) * Sign(b.v) = 0 THEN NaN ELSE InfOf(Sign(a.v) * Sign(b.v)))
    ELSE Fin(RoundDiv(a.v * b.v, Scale))

\* true division of doubles: x/0 is +-inf, 0/0 is NaN (a warning, no exception)
FDiv(a, b) ==
    IF IsNaN(a) \/ IsNaN(b) THEN NaN
    ELSE IF IsInf(a) THEN (IF IsInf(b) THEN NaN
                           ELSE InfOf(a.v * (IF b.v < 0 THEN -1 ELSE 1)))
    ELSE IF IsInf(b) THEN Fin(0)
    ELSE IF b.v = 0 THEN (IF a.v = 0 THEN NaN ELSE InfOf(a.v))
    ELSE Fin(Sign(b.v) * RoundDiv(a.v * Scale, Abs(b.v)))

FSqrt(a) ==
    IF IsNaN(a) THEN NaN
    ELSE IF IsInf(a) THEN (IF a.v > 0 THEN PosInf ELSE NaN)
    ELSE IF a.v < 0 THEN NaN
    ELSE Fin(RoundSqrt(a.v * Scale))

\* comparisons: false as soon as one side is NaN
FLt(a, b) ==
    IF IsNaN(a) \/ IsNaN(b) THEN FALSE
    ELSE IF IsInf(a) THEN a.v < 0 /\ ~(IsInf(b) /\ b.v < 0)
    ELSE IF IsInf(b) THEN b.v > 0
    ELSE a.v < b.v

FLe(a, b) == ~IsNaN(a) /\ ~IsNaN(b) /\ (a = b \/ FLt(a, b))
FGt(a, b) == FLt(b, a)
FGe(a, b) == FLe(b, a)

\* np.maximum: the greater operand, NaN as soon as one operand is NaN
FMax(a, b) == IF IsNaN(a) \/ IsNaN(b) THEN NaN ELSE IF FLt(a, b) THEN b ELSE a

Zero == Fin(0)
One == Fin(Scale)

------------------------------------------------------------------------------
(* Vectors (sequences of scalars) and matrices (sequences of rows) *)

RECURSIVE FSum(_)
FSum(s) == IF s = <<>> THEN Zero ELSE FAdd(Head(s), FSum(Tail(s)))

VSub(u, v) == [j \in 1..Len(u) |-> FSub(u[j], v[j])]
VAdd(u, v) == [j \in 1..Len(u) |-> FAdd(u[j], v[j])]
VScale(c, u) == [j \in 1..Len(u) |-> FMul(c, u[j])]
Zeros(n) == [j \in 1..n |-> Zero]

RECURSIVE SumSquares(_)
SumSquares(s) == IF s = <<>> THEN 0 ELSE Head(s).v * Head(s).v + SumSquares(Tail(s))

\* np.linalg.norm of a vector: the root of the sum of the squares, rounded
\* once (a double keeps the square of a small entry, the grid would lose it)
Norm(u) ==
    IF \E j \in 1..Len(u) : IsNaN(u[j]) THEN NaN
    ELSE IF \E j \in 1..Len(u) : IsInf(u[j]) THEN PosInf
    ELSE Fin(RoundSqrt(SumSquares(u)))

NCols(M) == Len(M[1])
NRows(M) == Len(M)

\* M @ u
MatVec(M, u) == [r \in 1..NRows(M) |-> FSum([c \in 1..NCols(M) |-> FMul(M[r][c], u[c])])]

\* M.T @ v
MatTVec(M, v) == [c \in 1..NCols(M) |-> FSum([r \in 1..NRows(M) |-> FMul(M[r][c], v[r])])]

HasNaN(u) == \E j \in 1..Len(u) : IsNaN(u[j])
AllFin(u) == \A j \in 1..Len(u) : IsFin(u[j])

------------------------------------------------------------------------------
(* The operators of the optimisation cell *)

\* A.T @ A, and its spectral norm np.linalg.norm(., ord=2) for a dictionary
\* with two columns: the largest eigenvalue of the symmetric 2x2 matrix
\* [[a, b], [b, c]], (a + c + sqrt((a - c)^2 + 4 b^2)) / 2
Gram(M) == [p \in 1..NCols(M) |-> MatTVec(M, [r \in 1..NRows(M) |-> M[r][p]])]

Lipschitz(M) ==
    LET G == Gram(M)
        a == G[1][1]
        b == G[1][2]
        c == G[2][2]
        disc == FAdd(FMul(FSub(a, c), FSub(a, c)), FMul(Fin(4 * Scale), FMul(b, b)))
    IN  FDiv(FAdd(FAdd(a, c), FSqrt(disc)), Fin(2 * Scale))

\* def grad_least_squares(A, x, y): return A.T @ (A @ x - y)
grad_least_squares(M, u, yy) == MatTVec(M, VSub(MatVec(M, u), yy))

\* an array argument with its shape: a vector (ndim 1) or a column (ndim 2,
\* shape (len, 1)); what a call gives back: a value or numpy's ValueError
Array1(v) == [ndim |-> 1, v |-> v]
Column(v) == [ndim |-> 2, v |-> v]
Value(v) == [kind |-> "value", v |-> v]
ValueError == [kind |-> "ValueError", v |-> <<>>]

\* grad_least_squares on arrays of any shape, by numpy's rules.  A @ x needs
\* len(x) = columns of A.  (A @ x) - y broadcasts: a vector y of length 1 is
\* subtracted from every entry, a column y of length k gives the k x m matrix
\* of the differences r[b] - y[a]; any other two lengths that differ raise.
\* A.T @ (.) needs the first dimension of its operand to be the rows of A.
grad_least_squares_np(M, u, yy) ==
    IF Len(u) # NCols(M) THEN ValueError
    ELSE LET r == MatVec(M, u)
             m == NRows(M)
             k == Len(yy.v)
         IN  IF yy.ndim = 1
             THEN IF k = m THEN Value(grad_least_squares(M, u, yy.v))
                  ELSE IF k = 1
                       THEN Value(MatTVec(M, [j \in 1..m |-> FSub(r[j], yy.v[1])]))
                  ELSE ValueError
             ELSE IF k # m THEN ValueError
                  ELSE Value([c \in 1..NCols(M) |-> [b \in 1..m |->
                           FSum([a \in 1..m |-> FMul(M[a][c], FSub(r[b], yy.v[a]))])]])

\* the rows of x.reshape(-1, dd): row g holds entries (g-1)*dd+1 .. g*dd
GroupOf(j, dd) == ((j - 1) \div dd) + 1
Group(u, g, dd) == [p \in 1..dd |-> u[(g - 1) * dd + p]]

\* mutant of ShrinkFactor: the factor is not clamped at zero
ShrinkFactor_NoClamp(gam, nrm) == FSub(One, FDiv(gam, nrm))

\* factor = np.maximum(1 - gamma / norm, 0), one factor per row
ShrinkFactor(gam, nrm) == FMax(FSub(One, FDiv(gam, nrm)), Zero)

\* def prox12norm(x, gamma, d): the length of u is a multiple of dd
prox12norm(u, gam, dd) ==
    [j \in 1..Len(u) |-> FMul(ShrinkFactor(gam, Norm(Group(u, GroupOf(j, dd), dd))), u[j])]

\* t_new = (1 + np.sqrt(1 + 4 * t ** 2)) / 2
MomentumNext(tt) ==
    FDiv(FAdd(One, FSqrt(FAdd(One, FMul(Fin(4 * Scale), FMul(tt, tt))))), Fin(2 * Scale))

\* x_next = proxf(z - step_size*grad, gamma*step_size)
ProxGradStep(M, yy, dd, zz, gam, step) ==
    prox12norm(VSub(zz, VScale(step, grad_least_squares(M, zz, yy))), FMul(gam, step), dd)

\* mutant of Extrapolate: the weight taken from the new t alone
Extrapolate_NewT(xn, xx, tt, tnew) ==
    VAdd(xn, VScale(FDiv(FSub(tnew, One), tnew), VSub(xn, xx)))

\* z_next = x_next + ((t - 1) / t_new) * (x_next - x)
Extrapolate(xn, xx, tt, tnew) ==
    VAdd(xn, VScale(FDiv(FSub(tt, One), tnew), VSub(xn, xx)))

\* np.linalg.norm(x_next - x) <= tol
ConvergenceTest(xn, xx, tl) == FLe(Norm(VSub(xn, xx)), tl)

\* np.linalg.norm(A @ x - y)
Residual(M, u, yy) == Norm(VSub(MatVec(M, u), yy))

------------------------------------------------------------------------------
(* The coefficient layout: get_A and generate_spectograms.  Python indexes
   from 0; a sequence holds the entry of index c at position c + 1. *)

\* np.cos(2 * np.pi * f * j / f_s) and np.sin(...), kept as terms
CosAtom(f, j) == [fn |-> "cos", f |-> f, j |-> j]
SinAtom(f, j) == [fn |-> "sin", f |-> f, j |-> j]

\* mutant of CosColumn: the cosines in a block of their own
CosColumn_Blocked(n) == n

\* the column written by A[j, 2 * i] = np.cos(...)
CosColumn(n) == 2 * n

\* the column written by A[j, 2 * i + 1] = np.sin(...)
SinColumn(n) == 2 * n + 1

\* def get_A(frequencies, f_s, l): A = np.zeros((l, 2*len(frequencies))), then
\* for each frequency of index n and each row j the two assignments; of two
\* assignments to one entry the later one stays (the sine of the largest n)
get_A(freqs, rows) ==
    [r \in 1..rows |-> [c \in 1..(2 * Len(freqs)) |->
        LET N == 0..(Len(freqs) - 1)
            sins == { n \in N : SinColumn(n) = c - 1 }
            coss == { n \in N : CosColumn(n) = c - 1 }
            last(S) == CHOOSE n \in S : \A h \in S : h <= n
        IN  IF sins # {} /\ (coss = {} \/ last(coss) <= last(sins))
            THEN SinAtom(freqs[last(sins) + 1], r - 1)
            ELSE IF coss # {} THEN CosAtom(freqs[last(coss) + 1], r - 1)
            ELSE Zero]]

\* the slice u[start::step]
Slice(u, start, step) ==
    [p \in 1..((Len(u) - start + step - 1) \div step) |-> u[start + (p - 1) * step + 1]]

\* np.sqrt(x[::2]**2 + x[1::2]**2) for one x of even length
Magnitudes(u) ==
    LET even == Slice(u, 0, 2)
        odd == Slice(u, 1, 2)
    IN  [p \in 1..Len(even) |-> FSqrt(FAdd(FMul(even[p], even[p]), FMul(odd[p], odd[p])))]

------------------------------------------------------------------------------
(* Bounds and the inputs the entry calls are given *)

\* largest inner iteration cap (maxit, gnrls_maxit) an entry call is given
MaxIt == 2

\* the bracket-doubling loop is followed for at most this many doublings
MaxDoublings == 3

\* gamma0 = 1e-6, the negligible weight of the baseline solve
gamma0 == Fin(1)

Vec(a, b) == <<Fin(a), Fin(b)>>

\* dictionaries (two rows, two columns): the identity, a badly conditioned
\* diagonal, a scaled identity (L = 1/4), one whose first column is the
\* short one (L = 9/16) and the degenerate all-zero matrix.
\* All have L <= 1, so that gamma*step_size is never rounded to zero on the
\* grid for a gamma > 0, as it never is in double precision.
Dictionaries ==
    { <<Vec(Scale, 0), Vec(0, Scale)>>,
      <<Vec(Scale, 0), Vec(0, Scale \div 2)>>,
      <<Vec(Scale \div 2, 0), Vec(0, Scale \div 2)>>,
      <<Vec(0, (3 * Scale) \div 4), Vec(Scale \div 2, 0)>>,
      <<Vec(0, 0), Vec(0, 0)>> }

Blocks == { Vec(Scale, 0), Vec(2 * Scale, 0), Vec(3 * Scale, 0), Vec(Scale, Scale) }

Iterates == { Vec(0, 0), Vec(Scale, 0), Vec(-Scale, 0) }

Sigmas == { Fin(0), Fin((3 * Scale) \div 10), Fin(Scale), Fin((5 * Scale) \div 2) }

BisectionTols == { Fin(Scale \div 8), Fin(2 * Scale) }

InnerTols == { Fin(1) }

GroupSizes == { 1, 2 }

DriverGammas == { Fin(0), Fin(4 * Scale) }

DriverData ==
    { <<b>> : b \in Blocks } \cup
    { <<Vec(Scale, 0), b>> : b \in Blocks } \cup
    { <<Vec(Scale, 0), Vec(Scale, 0), Vec(Scale, Scale)>>,
      <<Vec(Scale, 0), Vec(Scale, Scale), Vec(Scale, 0), Vec(3 * Scale, 0)>> }

LscgnmArgs ==
    [fn : {"lscgnm"}, A : Dictionaries, y : Blocks, sigma : Sigmas, d : GroupSizes,
     tol : BisectionTols, gnrls_x0 : Iterates, gnrls_tol : InnerTols,
     gnrls_maxit : 0..MaxIt]

ApgdDriverArgs ==
    [fn : {"apgd_driver"}, A : Dictionaries, data : DriverData, d : GroupSizes,
     gamma : DriverGammas, tol : InnerTols, maxit : 0..MaxIt]

\* sigma_list = [0.1, 0.2, ..., 1.0], the targets lscgnm_driver sweeps
sigma_list == [n \in 1..10 |-> Fin((n * Scale) \div 10)]

\* lscgnm_driver(block, f_s, l, d, tol, gnrls_tol, gnrls_maxit): the
\* dictionary get_A(f, f_s, l) stands for f_s and l
LscgnmDriverArgs ==
    [fn : {"lscgnm_driver"}, A : Dictionaries, block : Blocks, d : GroupSizes,
     tol : BisectionTols, gnrls_tol : InnerTols, gnrls_maxit : 0..MaxIt]

------------------------------------------------------------------------------
(* State *)

VARIABLES
    arg,        \* the arguments of the entry call (lscgnm or apgd_driver)
    pc,         \* "start", "apgd" (in the loop of apgd), "ret" (apgd has returned), "done"
    site,       \* the call of apgd that runs or has returned
    L,          \* L = np.linalg.norm(A.T @ A, ord=2)
    gamma, y, tol, maxit,      \* apgd: the parameters gamma, tol, maxit; y of gradf
    x, z, t, step_size, i, x_next,   \* apgd: the locals
    ret,        \* what the last call of apgd returned
    lscgnm_x, sigma0, sigma_max,   \* lscgnm: x, sigma0, sigma_max
    gamma_u, gamma_l, gamma_mid, x_opt, num_iterations,   \* lscgnm: the locals
    blk, result,   \* apgd_driver: the index of the block in the loop, result
    sweep,      \* lscgnm_driver: the index of the sigma in the loop (result is shared)
    lips,       \* history: every computation of np.linalg.norm(A.T @ A, ord=2)
    out,        \* what the entry call returned or raised
    calls,      \* history: the calls of apgd made so far, each with what it returned
    tests,      \* history: the outcomes of the convergence test in this call of apgd
    ngrad, nprox,  \* history: the calls of gradf and of proxf in this call of apgd
    prox_x, prox_gamma, prox_d,   \* a call of prox12norm alone: x, gamma, d
    prox_out,   \* what that call returned, None before it
    grad_A, grad_x, grad_y,       \* a call of grad_least_squares alone: A, x, y
    grad_out,   \* what that call returned or raised, None before it
    frequencies, l, A,   \* a call of get_A alone: frequencies, l, and the A it returned
    weights, spectrograms,  \* generate_spectograms: weights, and the array spectrograms
    sgd_arg,    \* sgd_mlogistic_svs: the arguments trainXr, gamma, alpha, svsX, maxit
    sgd_pc,     \* "idle", "loop" (at the head of the while loop), "done"
    sgd_x, sgd_x_list, sgd_s, sgd_j, sgd_misclassified_list, sgd_k,   \* its locals
    sgd_ret,    \* what it returned
    sgd_evals,  \* history: the values of k at which the SVS set was evaluated
    bis_arg,    \* the bisection loop of lscgnm alone: the bracket top G, tol, and the solver
    bis_pc,     \* "idle", "loop" (at the header of the loop), "over"
    bis_gamma_l, bis_gamma_u, bis_gamma_mid, bis_num_iterations   \* its locals

apgd_vars == <<gamma, y, tol, maxit, x, z, t, step_size, i, x_next, ret, tests, ngrad, nprox>>
lscgnm_vars == <<lscgnm_x, sigma0, sigma_max, gamma_u, gamma_l, gamma_mid, x_opt, num_iterations>>
driver_vars == <<blk, result, sweep>>
solver_vars == <<arg, pc, site, L, lips, apgd_vars, lscgnm_vars, driver_vars, out, calls>>
prox_vars == <<prox_x, prox_gamma, prox_d, prox_out>>
grad_vars == <<grad_A, grad_x, grad_y, grad_out>>
layout_vars == <<frequencies, l, A, weights, spectrograms>>
sgd_vars == <<sgd_arg, sgd_pc, sgd_x, sgd_x_list, sgd_s, sgd_j, sgd_misclassified_list, sgd_k,
              sgd_ret, sgd_evals>>
bis_vars == <<bis_arg, bis_pc, bis_gamma_l, bis_gamma_u, bis_gamma_mid, bis_num_iterations>>
alone_vars == <<prox_vars, grad_vars, layout_vars, sgd_vars, bis_vars>>
vars == <<solver_vars, alone_vars>>

\* a name that has no value yet (a local not assigned, None)
None == <<>>

\* no entry call is running
SolverIdle ==
    /\ pc = "start"
    /\ site = "none"
    /\ L = None
    /\ lips = <<>>
    /\ gamma = None /\ y = None /\ tol = None /\ maxit = 0
    /\ x = None /\ z = None /\ t = None /\ step_size = None /\ i = 0 /\ x_next = None
    /\ ret = None
    /\ lscgnm_x = None /\ sigma0 = None /\ sigma_max = None
    /\ gamma_u = None /\ gamma_l = None /\ gamma_mid = None /\ x_opt = None
    /\ num_iterations = 0
    /\ blk = 0 /\ result = <<>> /\ sweep = 0
    /\ out = None
    /\ calls = <<>>
    /\ tests = <<>>
    /\ ngrad = 0 /\ nprox = 0

\* no call of prox12norm alone
ProxIdle == prox_x = None /\ prox_gamma = None /\ prox_d = 0 /\ prox_out = None

\* no call of grad_least_squares alone
GradIdle == grad_A = None /\ grad_x = None /\ grad_y = None /\ grad_out = None

\* no call of get_A or generate_spectograms alone
LayoutIdle ==
    /\ frequencies = None /\ l = 0 /\ A = None
    /\ weights = None /\ spectrograms = None

\* no call of sgd_mlogistic_svs
SgdIdle ==
    /\ sgd_arg = None /\ sgd_pc = "idle"
    /\ sgd_x = None /\ sgd_x_list = <<>> /\ sgd_s = 0 /\ sgd_j = 0
    /\ sgd_misclassified_list = <<>> /\ sgd_k = 0
    /\ sgd_ret = None /\ sgd_evals = <<>>

\* the bisection loop is not run alone
BisIdle ==
    /\ bis_arg = None /\ bis_pc = "idle"
    /\ bis_gamma_l = None /\ bis_gamma_u = None /\ bis_gamma_mid = None
    /\ bis_num_iterations = 0

Init ==
    /\ arg \in LscgnmArgs \cup ApgdDriverArgs \cup LscgnmDriverArgs
    /\ SolverIdle
    /\ ProxIdle
    /\ GradIdle
    /\ LayoutIdle
    /\ SgdIdle
    /\ BisIdle

\* the entry call is lscgnm_driver, which calls lscgnm once per sigma
InDriver == arg.fn = "lscgnm_driver"

\* the arguments of the running call of lscgnm: those of the entry call, or
\* those lscgnm_driver passes: (A, block, sigma, d, tol, x0, gnrls_tol,
\* gnrls_maxit) with x0 = np.zeros(A.shape[1]) and d overwritten by d = 2
Arg_A == arg.A
Arg_y == IF InDriver THEN arg.block ELSE arg.y
Arg_sigma == IF InDriver THEN sigma_list[sweep] ELSE arg.sigma
Arg_d == IF InDriver THEN 2 ELSE arg.d
Arg_tol == arg.tol
Arg_gnrls_x0 == IF InDriver THEN Zeros(NCols(arg.A)) ELSE arg.gnrls_x0
Arg_gnrls_tol == arg.gnrls_tol
Arg_gnrls_maxit == arg.gnrls_maxit

------------------------------------------------------------------------------
(* apgd(gradf, proxf, gamma, L, x, tol, maxit) *)

\* mutant of StartIterate: a warm start from the previous solve's result
StartIterate_Warm(x0, previous) == IF previous = None THEN x0 ELSE previous

\* the initial iterate an inner solve is given: lscgnm passes its parameter
\* gnrls_x0 at each of its three call sites, apgd_driver passes x0
StartIterate(x0, previous) == x0

\* mutant of LoopRuns: one pass too many
LoopRuns_Inclusive(k, cap) == k <= cap

\* the loop header: for i in range(maxit)
LoopRuns(k, cap) == k < cap

\* mutant of ExhaustedCount: the cap itself, no sentinel
ExhaustedCount_NoSentinel(cap) == cap

\* the count returned when the loop ends without a successful test
ExhaustedCount(cap) == cap + 1

\* the call: z = x.copy(); t = 1; step_size = 1 / L
\* history: the return of the running call is recorded
Returned(r) ==
    [calls EXCEPT ![Len(calls)] = [@ EXCEPT !.returned = TRUE, !.result = r.x,
                                              !.count = r.count]]

ApgdCall(where, gam, lip, yy, xs, tl, cap) ==
    /\ pc' = "apgd"
    /\ site' = where
    /\ gamma' = gam /\ y' = yy /\ tol' = tl /\ maxit' = cap
    /\ x' = xs
    /\ z' = xs
    /\ t' = One
    /\ step_size' = FDiv(One, lip)
    /\ i' = 0
    /\ x_next' = None
    /\ tests' = <<>>
    /\ ngrad' = 0 /\ nprox' = 0
    /\ calls' = Append(calls, [site |-> where, gamma |-> gam, L |-> lip, y |-> yy, x |-> xs,
                                returned |-> FALSE, result |-> None, count |-> 0])
    /\ UNCHANGED ret

\* one pass of the loop body
ApgdIterate ==
    /\ pc = "apgd"
    /\ LoopRuns(i, maxit)
    /\ LET xn == ProxGradStep(Arg_A, y, Arg_d, z, gamma, step_size)
           t_new == MomentumNext(t)
           z_next == Extrapolate(xn, x, t, t_new)
           ok == ConvergenceTest(xn, x, tol)
       IN  /\ x_next' = xn
           /\ ngrad' = ngrad + 1
           /\ nprox' = nprox + 1
           /\ tests' = Append(tests, ok)
           /\ IF ok
              THEN /\ ret' = [x |-> xn, count |-> i]
                   /\ pc' = "ret"
                   /\ calls' = Returned(ret')
                   /\ UNCHANGED <<t, x, z, i>>
              ELSE /\ t' = t_new
                   /\ x' = xn
                   /\ z' = z_next
                   /\ i' = i + 1
                   /\ UNCHANGED <<ret, pc, calls>>
    /\ UNCHANGED <<alone_vars, arg, site, L, lips, gamma, y, tol, maxit, step_size, lscgnm_vars,
                   driver_vars, out>>

\* the loop is exhausted: return x, maxit+1
ApgdExhausted ==
    /\ pc = "apgd"
    /\ ~LoopRuns(i, maxit)
    /\ ret' = [x |-> x, count |-> ExhaustedCount(maxit)]
    /\ pc' = "ret"
    /\ calls' = Returned(ret')
    /\ UNCHANGED <<alone_vars, arg, site, L, lips, gamma, y, tol, maxit, x, z, t, step_size, i, x_next,
                   tests, ngrad, nprox, lscgnm_vars, driver_vars, out>>

------------------------------------------------------------------------------
(* lscgnm(A, y, sigma, d, tol, gnrls_x0, gnrls_tol, gnrls_maxit) *)

\* mutant of Kept: an iterate returned with the count maxit+1 is dropped
Kept_Checked(r) == IF r.count = maxit + 1 THEN Zeros(Len(r.x)) ELSE r.x

\* what the callers keep of the pair apgd returns: x, _ = apgd(...) in
\* lscgnm, and x, iters = apgd(...) with iters never read in apgd_driver
Kept(r) == r.x

LscgnmSolve(where, gam, lip, previous) ==
    ApgdCall(where, gam, lip, Arg_y, StartIterate(Arg_gnrls_x0, previous),
             Arg_gnrls_tol, Arg_gnrls_maxit)

\* mutant of Feasible: the comparison the other way round
Feasible_Flipped(sig, sig0) == FLe(sig, sig0)

\* the test of the outer branch: if sigma >= sigma0
Feasible(sig, sig0) == FGe(sig, sig0)

\* the test of the inner branch: if sigma >= sigma_max
Trivial(sig, sigmax) == FGe(sig, sigmax)

\* mutant of BracketFound: the loop ends on a residual below sigma
BracketFound_Below(nrm, sig) == FLt(nrm, sig)

\* the test that ends the doubling loop: if norm > sigma
BracketFound(nrm, sig) == FGt(nrm, sig)

\* mutant of Doubled: a step of one instead of a doubling
Doubled_Incremented(gu) == FAdd(gu, One)

\* the next trial of the doubling loop: gamma_u = 2 * gamma_u
Doubled(gu) == FMul(Fin(2 * Scale), gu)

\* mutant of BisectionRuns: the loop is left at twice the tolerance
BisectionRuns_Loose(gl, gu, tl) == FGt(FSub(gu, gl), FMul(Fin(2 * Scale), tl))

\* the header of the bisection loop: while gamma_u - gamma_l > tol
BisectionRuns(gl, gu, tl) == FGt(FSub(gu, gl), tl)

\* gamma_mid = (gamma_l + gamma_u) / 2, and gamma_star likewise
Midpoint(gl, gu) == FDiv(FAdd(gl, gu), Fin(2 * Scale))

\* mutant of MoveLower: a residual equal to sigma raises the lower bound
MoveLower_OrEqual(err, sig) == FLe(err, sig)

\* the test of a bisection step: if error < sigma
MoveLower(err, sig) == FLt(err, sig)

\* history: the calls of apgd made by the running call of lscgnm, which
\* are those from its baseline solve on
LastBaseline ==
    IF \E k \in 1..Len(calls) : calls[k].site = "baseline"
    THEN CHOOSE k \in 1..Len(calls) :
             /\ calls[k].site = "baseline"
             /\ \A h \in (k + 1)..Len(calls) : calls[h].site # "baseline"
    ELSE Len(calls) + 1

\* history: the trials of the doubling loop so far
Doublings ==
    SelectSeq(SubSeq(calls, LastBaseline, Len(calls)), LAMBDA c : c.site = "doubling")

\* where a return or an exception of lscgnm leads: to the end of the entry
\* call, or back into the loop of lscgnm_driver (which catches nothing)
AfterLscgnm(o) ==
    IF InDriver /\ o.kind # "UnboundLocalError" THEN "swept" ELSE "done"

\* the head of lscgnm in a fresh frame: L is computed, the locals are
\* unassigned, and the baseline solve is started
LscgnmEnter ==
    /\ L' = Lipschitz(Arg_A)
    /\ lscgnm_x' = None /\ sigma0' = None /\ sigma_max' = None
    /\ gamma_u' = None /\ gamma_l' = None /\ gamma_mid' = None /\ x_opt' = None
    /\ num_iterations' = 0
    /\ LscgnmSolve("baseline", gamma0, L', None)

\* L = ...; gamma0 = 1e-6; x, _ = apgd(..., gamma0, L, gnrls_x0, ...)
LscgnmCall ==
    /\ pc = "start"
    /\ arg.fn = "lscgnm"
    /\ LscgnmEnter
    /\ lips' = Append(lips, L')
    /\ UNCHANGED <<alone_vars, arg, driver_vars, out>>

\* the bisection loop from its header on, entered with the bracket [gl, gu]
\* and the x_opt assigned so far: the next midpoint solve, or the return
BisectionLoop(gl, gu, xo) ==
    IF BisectionRuns(gl, gu, Arg_tol)
    THEN /\ gamma_mid' = Midpoint(gl, gu)
         /\ LscgnmSolve("bisect", gamma_mid', L, Kept(ret))
         /\ UNCHANGED out
    ELSE /\ out' = IF xo = None
                   THEN [kind |-> "UnboundLocalError", x |-> None, gamma |-> NaN]
                   ELSE [kind |-> "bisected", x |-> xo, gamma |-> Midpoint(gl, gu)]
         /\ pc' = AfterLscgnm(out')
         /\ UNCHANGED <<site, gamma_mid, apgd_vars, calls>>

\* after the baseline solve: sigma0, sigma_max and the two branches
LscgnmBaseline ==
    /\ pc = "ret"
    /\ site = "baseline"
    /\ lscgnm_x' = Kept(ret)
    /\ sigma0' = Residual(Arg_A, Kept(ret), Arg_y)
    /\ sigma_max' = Norm(Arg_y)
    /\ IF Feasible(Arg_sigma, sigma0')
       THEN IF Trivial(Arg_sigma, sigma_max')
            THEN /\ out' = [kind |-> "trivial", x |-> Zeros(NCols(Arg_A)),
                            gamma |-> PosInf]
                 /\ pc' = AfterLscgnm(out')
                 /\ UNCHANGED <<site, gamma_u, apgd_vars, calls>>
            ELSE /\ gamma_u' = One
                 /\ LscgnmSolve("doubling", gamma_u', L, Kept(ret))
                 /\ UNCHANGED out
       ELSE /\ out' = [kind |-> "infeasible", x |-> None, gamma |-> Fin(-Scale)]
            /\ pc' = AfterLscgnm(out')
            /\ UNCHANGED <<site, gamma_u, apgd_vars, calls>>
    /\ UNCHANGED <<alone_vars, arg, L, lips, gamma_l, gamma_mid, x_opt, num_iterations, driver_vars>>

\* a doubling trial whose residual does not exceed sigma: double and solve again
LscgnmDouble ==
    /\ pc = "ret"
    /\ site = "doubling"
    /\ ~BracketFound(Residual(Arg_A, Kept(ret), Arg_y), Arg_sigma)
    /\ Len(Doublings) <= MaxDoublings
    /\ lscgnm_x' = Kept(ret)
    /\ gamma_u' = Doubled(gamma_u)
    /\ LscgnmSolve("doubling", gamma_u', L, Kept(ret))
    /\ UNCHANGED <<alone_vars, arg, L, lips, sigma0, sigma_max, gamma_l, gamma_mid, x_opt, num_iterations,
                   driver_vars, out>>

\* the doubling trial whose residual exceeds sigma: break; gamma_l = 0; bisection
LscgnmBracketed ==
    /\ pc = "ret"
    /\ site = "doubling"
    /\ BracketFound(Residual(Arg_A, Kept(ret), Arg_y), Arg_sigma)
    /\ lscgnm_x' = Kept(ret)
    /\ gamma_l' = Zero
    /\ num_iterations' = 0
    /\ BisectionLoop(gamma_l', gamma_u, x_opt)
    /\ UNCHANGED <<alone_vars, arg, L, lips, sigma0, sigma_max, gamma_u, x_opt, driver_vars>>

\* after a midpoint solve: move one bound, count the step, back to the header
LscgnmBisect ==
    /\ pc = "ret"
    /\ site = "bisect"
    /\ x_opt' = Kept(ret)
    /\ LET error == Residual(Arg_A, Kept(ret), Arg_y)
       IN  IF MoveLower(error, Arg_sigma)
           THEN gamma_l' = gamma_mid /\ gamma_u' = gamma_u
           ELSE gamma_u' = gamma_mid /\ gamma_l' = gamma_l
    /\ num_iterations' = num_iterations + 1
    /\ BisectionLoop(gamma_l', gamma_u', x_opt')
    /\ UNCHANGED <<alone_vars, arg, L, lips, lscgnm_x, sigma0, sigma_max, driver_vars>>

------------------------------------------------------------------------------
(* apgd_driver(data, f_s, l, d, gamma, tol, maxit) *)

\* the blocks the loop visits: data[:-1]
Visited(data) == SubSeq(data, 1, Len(data) - 1)

DriverSolve(k, lip, previous) ==
    ApgdCall("block", arg.gamma, lip, arg.data[k],
             StartIterate(Zeros(NCols(Arg_A)), previous), arg.tol, arg.maxit)

\* A and L are computed, result = [], x0 = zeros, and the loop is entered
ApgdDriverCall ==
    /\ pc = "start"
    /\ arg.fn = "apgd_driver"
    /\ L' = Lipschitz(Arg_A)
    /\ lips' = Append(lips, L')
    /\ IF Visited(arg.data) = <<>>
       THEN /\ pc' = "done"
            /\ out' = [kind |-> "result", x |-> <<>>, gamma |-> NaN]
            /\ UNCHANGED <<site, blk, apgd_vars, calls>>
       ELSE /\ blk' = 1
            /\ DriverSolve(1, L', Zeros(NCols(Arg_A)))
            /\ UNCHANGED out
    /\ UNCHANGED <<alone_vars, arg, result, sweep, lscgnm_vars>>

\* result.append(x), then the next block or return result
ApgdDriverBlock ==
    /\ pc = "ret"
    /\ site = "block"
    /\ result' = Append(result, Kept(ret))
    /\ IF blk < Len(Visited(arg.data))
       THEN /\ blk' = blk + 1
            /\ DriverSolve(blk + 1, L, Kept(ret))
            /\ UNCHANGED out
       ELSE /\ pc' = "done"
            /\ out' = [kind |-> "result", x |-> result', gamma |-> NaN]
            /\ UNCHANGED <<site, blk, apgd_vars, calls>>
    /\ UNCHANGED <<alone_vars, arg, L, lips, sweep, lscgnm_vars>>

------------------------------------------------------------------------------
(* lscgnm_driver(block, f_s, l, d, tol, gnrls_tol, gnrls_maxit) *)

\* A and L are computed, result = [], x0 = zeros, d = 2, and lscgnm is called
\* for the first sigma; lscgnm computes L again
LscgnmDriverCall ==
    /\ pc = "start"
    /\ InDriver
    /\ sweep' = 1
    /\ LscgnmEnter
    /\ lips' = <<Lipschitz(Arg_A), L'>>
    /\ UNCHANGED <<alone_vars, arg, blk, result, out>>

\* x, gamma = lscgnm(...) has returned: result.append(x), then lscgnm for the
\* next sigma, or return result
LscgnmDriverSweep ==
    /\ pc = "swept"
    /\ result' = Append(result, out.x)
    /\ IF sweep < Len(sigma_list)
       THEN /\ sweep' = sweep + 1
            /\ LscgnmEnter
            /\ lips' = Append(lips, L')
            /\ out' = None
       ELSE /\ pc' = "done"
            /\ out' = [kind |-> "result", x |-> result', gamma |-> NaN]
            /\ UNCHANGED <<site, L, lips, sweep, apgd_vars, lscgnm_vars, calls>>
    /\ UNCHANGED <<alone_vars, arg, blk>>

------------------------------------------------------------------------------

Next ==
    \/ LscgnmCall
    \/ LscgnmBaseline
    \/ LscgnmDouble
    \/ LscgnmBracketed
    \/ LscgnmBisect
    \/ ApgdDriverCall
    \/ ApgdDriverBlock
    \/ LscgnmDriverCall
    \/ LscgnmDriverSweep
    \/ ApgdIterate
    \/ ApgdExhausted

Spec == Init /\ [][Next]_vars

------------------------------------------------------------------------------
(* prox12norm(x, gamma, d) called alone, on vectors of four entries *)

ProxEntries == { Zero, Fin(Scale), Fin(-Scale), Fin((3 * Scale) \div 4) }

ProxVectors == [1..4 -> ProxEntries]

ProxThresholds == { Zero, Fin(Scale \div 2), Fin(Scale), Fin((5 * Scale) \div 4), Fin(2 * Scale) }

ProxGroupSizes == { 1, 2, 4 }

InitProx ==
    /\ arg = None
    /\ SolverIdle
    /\ prox_x \in ProxVectors
    /\ prox_gamma \in ProxThresholds
    /\ prox_d \in ProxGroupSizes
    /\ prox_out = None
    /\ GradIdle
    /\ LayoutIdle
    /\ SgdIdle
    /\ BisIdle

Prox12normCall ==
    /\ prox_x # None
    /\ prox_out = None
    /\ prox_out' = prox12norm(prox_x, prox_gamma, prox_d)
    /\ UNCHANGED <<solver_vars, prox_x, prox_gamma, prox_d, grad_vars, layout_vars, sgd_vars, bis_vars>>

NextProx == Prox12normCall

SpecProx == InitProx /\ [][NextProx]_vars

------------------------------------------------------------------------------
(* grad_least_squares(A, x, y) called alone, on arrays of any shape *)

GradMatrices ==
    { <<Vec(Scale, 0), Vec(0, Scale)>>,
      <<Vec(Scale, Scale)>>,
      <<<<Fin(Scale)>>, <<Fin(2 * Scale)>>>> }

GradEntries == { Zero, Fin(Scale) }

\* vectors of one to three entries
GradVectors == UNION { [1..n -> GradEntries] : n \in 1..3 }

\* y as a vector of one to three entries or as a column of one or two
GradBlocks ==
    { Array1(v) : v \in GradVectors } \cup
    { Column(v) : v \in UNION { [1..n -> GradEntries] : n \in 1..2 } }

InitGrad ==
    /\ arg = None
    /\ SolverIdle
    /\ ProxIdle
    /\ grad_A \in GradMatrices
    /\ grad_x \in GradVectors
    /\ grad_y \in GradBlocks
    /\ grad_out = None
    /\ LayoutIdle
    /\ SgdIdle
    /\ BisIdle

GradLeastSquaresCall ==
    /\ grad_A # None
    /\ grad_out = None
    /\ grad_out' = grad_least_squares_np(grad_A, grad_x, grad_y)
    /\ UNCHANGED <<solver_vars, prox_vars, grad_A, grad_x, grad_y, layout_vars, sgd_vars, bis_vars>>

NextGrad == GradLeastSquaresCall

SpecGrad == InitGrad /\ [][NextGrad]_vars

------------------------------------------------------------------------------
(* get_A, prox12norm with d = 2 and generate_spectograms on one layout *)

\* most frequencies of a dictionary, most rows
MaxFrequencies == 2
MaxRows == 2

\* frequencies are named by their index in get_piano_keys()
FrequencyLists == { [n \in 1..m |-> n] : m \in 1..MaxFrequencies }

LayoutEntries == { Zero, Fin(Scale), Fin(-Scale \div 2) }

InitLayout ==
    /\ arg = None
    /\ SolverIdle
    /\ GradIdle
    /\ frequencies \in FrequencyLists
    /\ l \in 1..MaxRows
    /\ A = None
    /\ weights \in { <<u>> : u \in [1..(2 * Len(frequencies)) -> LayoutEntries] }
    /\ spectrograms = None
    /\ prox_x = weights[1]
    /\ prox_gamma \in { Fin(Scale \div 2), Fin(Scale) }
    /\ prox_d = 2
    /\ prox_out = None
    /\ SgdIdle
    /\ BisIdle

GetACall ==
    /\ frequencies # None
    /\ A = None
    /\ A' = get_A(frequencies, l)
    /\ UNCHANGED <<solver_vars, prox_vars, grad_vars, sgd_vars, bis_vars, frequencies, l, weights, spectrograms>>

GenerateSpectogramsCall ==
    /\ weights # None
    /\ spectrograms = None
    /\ spectrograms' = [n \in 1..Len(weights) |-> Magnitudes(weights[n])]
    /\ UNCHANGED <<solver_vars, prox_vars, grad_vars, sgd_vars, bis_vars, frequencies, l, A, weights>>

NextLayout ==
    \/ GetACall
    \/ Prox12normCall
    \/ GenerateSpectogramsCall

SpecLayout == InitLayout /\ [][NextLayout]_vars

------------------------------------------------------------------------------
(* sgd_mlogistic_svs(trainXr, gamma, stepsizefunc, svsX, maxit), on data with
   one feature: a row of trainXr or svsX is one number, and so is x.  The
   step size function is a constant one (phi_1, phi_2 do not read a, x, k). *)

\* largest maxit the call is given
MaxSgdIt == 7

Half == Fin(Scale \div 2)

\* gradient_f(x, a, gamma)
gradient_f(xx, a, gam) ==
    LET ax == FMul(a, xx)
    IN  FAdd(FMul(FAdd(Half, FDiv(FMul(Half, ax), FSqrt(FAdd(One, FMul(ax, ax))))), a),
             FMul(gam, xx))

\* np.mean(np.array(x_list), axis=0): nan for an empty list
MeanOf(list) == FDiv(FSum(list), Fin(Len(list) * Scale))

\* len(misclassified) of calculate_error(dataXr, x): the rows with a
\* prediction >= 0
Misclassified(dataXr, xx) == Cardinality({ n \in 1..Len(dataXr) : FGe(FMul(dataXr[n], xx), Zero) })

\* the test at the head of the loop: if k/j == s
EvaluationDue(kk, jj, ss) == kk = jj * ss

\* mutant of NotImproved: an equal count does not stop the training
NotImproved_Strict(now, before) == now > before

\* the stopping test: misclassified_list[j-1] >= misclassified_list[j-2]
NotImproved(now, before) == now >= before

SgdTrainSets == { <<Fin(-Scale), Fin(Scale)>>, <<Fin(-Scale), Fin(-Scale \div 2)>> }

SgdSvsSets ==
    { <<Fin(-Scale)>>,
      <<Fin(-Scale), Fin(Scale)>>,
      <<Fin(-Scale), Fin(-Scale \div 2), Fin(Scale \div 4)>> }

SgdArgs ==
    [trainXr : SgdTrainSets, gamma : { Fin(Scale \div 4) }, alpha : { One, Fin(2 * Scale) },
     svsX : SgdSvsSets, maxit : 0..MaxSgdIt]

InitSgd ==
    /\ arg = None
    /\ SolverIdle
    /\ ProxIdle
    /\ GradIdle
    /\ LayoutIdle
    /\ sgd_arg \in SgdArgs
    /\ sgd_pc = "idle"
    /\ sgd_x = None /\ sgd_x_list = <<>> /\ sgd_s = 0 /\ sgd_j = 0
    /\ sgd_misclassified_list = <<>> /\ sgd_k = 0
    /\ sgd_ret = None /\ sgd_evals = <<>>
    /\ BisIdle

\* x = zeros; x_list = []; s = svsX.shape[0]; j = 1; misclassified_list = []; k = 0
SgdCall ==
    /\ sgd_pc = "idle"
    /\ sgd_arg # None
    /\ sgd_pc' = "loop"
    /\ sgd_x' = Zero
    /\ sgd_x_list' = <<>>
    /\ sgd_s' = Len(sgd_arg.svsX)
    /\ sgd_j' = 1
    /\ sgd_misclassified_list' = <<>>
    /\ sgd_k' = 0
    /\ UNCHANGED <<solver_vars, prox_vars, grad_vars, layout_vars, bis_vars, sgd_arg, sgd_ret, sgd_evals>>

\* one pass of the while loop: the evaluation if it is due, with the early
\* return, then the update at a random row of trainXr
SgdPass ==
    /\ sgd_pc = "loop"
    /\ sgd_k < sgd_arg.maxit
    /\ LET due == EvaluationDue(sgd_k, sgd_j, sgd_s)
           x_avg == MeanOf(sgd_x_list)
           list == IF due
                   THEN Append(sgd_misclassified_list, Misclassified(sgd_arg.svsX, x_avg))
                   ELSE sgd_misclassified_list
           stop == due /\ sgd_j > 1 /\ NotImproved(list[sgd_j], list[sgd_j - 1])
       IN  /\ sgd_misclassified_list' = list
           /\ sgd_evals' = IF due THEN Append(sgd_evals, sgd_k) ELSE sgd_evals
           /\ IF stop
              THEN /\ sgd_ret' = [x |-> MeanOf(sgd_x_list), k |-> sgd_k]
                   /\ sgd_pc' = "done"
                   /\ UNCHANGED <<sgd_x, sgd_x_list, sgd_j, sgd_k>>
              ELSE /\ sgd_j' = IF due THEN sgd_j + 1 ELSE sgd_j
                   /\ \E n \in 1..Len(sgd_arg.trainXr) :
                          LET ai == sgd_arg.trainXr[n]
                              grad == gradient_f(sgd_x, ai, sgd_arg.gamma)
                          IN  sgd_x' = FSub(sgd_x, FMul(sgd_arg.alpha, grad))
                   /\ sgd_x_list' = Append(sgd_x_list, sgd_x')
                   /\ sgd_k' = sgd_k + 1
                   /\ UNCHANGED <<sgd_ret, sgd_pc>>
    /\ UNCHANGED <<solver_vars, prox_vars, grad_vars, layout_vars, bis_vars, sgd_arg, sgd_s>>

\* the loop ends with k = maxit: return np.mean(np.array(x_list), axis=0), maxit
SgdExhausted ==
    /\ sgd_pc = "loop"
    /\ ~(sgd_k < sgd_arg.maxit)
    /\ sgd_ret' = [x |-> MeanOf(sgd_x_list), k |-> sgd_arg.maxit]
    /\ sgd_pc' = "done"
    /\ UNCHANGED <<solver_vars, prox_vars, grad_vars, layout_vars, bis_vars, sgd_arg, sgd_x, sgd_x_list,
                   sgd_s, sgd_j, sgd_misclassified_list, sgd_k, sgd_evals>>

NextSgd ==
    \/ SgdCall
    \/ SgdPass
    \/ SgdExhausted

SpecSgd == InitSgd /\ [][NextSgd]_vars

------------------------------------------------------------------------------
(* sgd_mlogistic_svs with the iterates left out: calculate_error returns any
   count it can return, which is the number of rows of svsX with a
   prediction >= 0, a number in 0..s; the entries of x_list stand for the
   iterates.  The interpreter goes on with the call as long as a step is
   possible. *)

\* largest SVS set and largest maxit of this specification
MaxSvs == 3
MaxCountIt == 16

SgdCountArgs == [s : 1..MaxSvs, maxit : 0..MaxCountIt]

InitSgdCounts ==
    /\ arg = None
    /\ SolverIdle
    /\ ProxIdle
    /\ GradIdle
    /\ LayoutIdle
    /\ BisIdle
    /\ sgd_arg \in SgdCountArgs
    /\ sgd_pc = "idle"
    /\ sgd_x = None /\ sgd_x_list = <<>> /\ sgd_s = 0 /\ sgd_j = 0
    /\ sgd_misclassified_list = <<>> /\ sgd_k = 0
    /\ sgd_ret = None /\ sgd_evals = <<>>

\* x_list = []; s = svsX.shape[0]; j = 1; misclassified_list = []; k = 0
SgdCountsCall ==
    /\ sgd_pc = "idle"
    /\ sgd_arg # None
    /\ sgd_pc' = "loop"
    /\ sgd_x_list' = <<>>
    /\ sgd_s' = sgd_arg.s
    /\ sgd_j' = 1
    /\ sgd_misclassified_list' = <<>>
    /\ sgd_k' = 0
    /\ UNCHANGED <<solver_vars, prox_vars, grad_vars, layout_vars, bis_vars, sgd_arg, sgd_x,
                   sgd_ret, sgd_evals>>

\* one pass of the while loop, with the count of the evaluation drawn
SgdCountsPass ==
    /\ sgd_pc = "loop"
    /\ sgd_k < sgd_arg.maxit
    /\ \E count \in 0..sgd_s :
           LET due == EvaluationDue(sgd_k, sgd_j, sgd_s)
               list == IF due THEN Append(sgd_misclassified_list, count)
                       ELSE sgd_misclassified_list
               stop == due /\ sgd_j > 1 /\ NotImproved(list[sgd_j], list[sgd_j - 1])
           IN  /\ sgd_misclassified_list' = list
               /\ sgd_evals' = IF due THEN Append(sgd_evals, sgd_k) ELSE sgd_evals
               /\ IF stop
                  THEN /\ sgd_ret' = [x |-> "mean", k |-> sgd_k]
                       /\ sgd_pc' = "done"
                       /\ UNCHANGED <<sgd_x_list, sgd_j, sgd_k>>
                  ELSE /\ sgd_j' = IF due THEN sgd_j + 1 ELSE sgd_j
                       /\ sgd_x_list' = Append(sgd_x_list, sgd_k + 1)
                       /\ sgd_k' = sgd_k + 1
                       /\ UNCHANGED <<sgd_ret, sgd_pc>>
    /\ UNCHANGED <<solver_vars, prox_vars, grad_vars, layout_vars, bis_vars, sgd_arg, sgd_x,
                   sgd_s>>

\* the loop ends with k = maxit: return np.mean(np.array(x_list), axis=0), maxit
SgdCountsExhausted ==
    /\ sgd_pc = "loop"
    /\ ~(sgd_k < sgd_arg.maxit)
    /\ sgd_ret' = [x |-> "mean", k |-> sgd_arg.maxit]
    /\ sgd_pc' = "done"
    /\ UNCHANGED <<solver_vars, prox_vars, grad_vars, layout_vars, bis_vars, sgd_arg, sgd_x,
                   sgd_x_list, sgd_s, sgd_j, sgd_misclassified_list, sgd_k, sgd_evals>>

NextSgdCounts ==
    \/ SgdCountsCall
    \/ SgdCountsPass
    \/ SgdCountsExhausted

SpecSgdCounts == InitSgdCounts /\ [][NextSgdCounts]_vars /\ WF_vars(NextSgdCounts)

------------------------------------------------------------------------------
(* The bisection loop of lscgnm alone, in floating point.  Under Spec the
   tolerances are far above the resolution of the numbers; here gamma_l,
   gamma_u and gamma_mid are floating-point numbers with a mantissa of
   MantissaBits bits (a double has 53), and tol may be finer than their
   spacing.  The inner solver is deterministic: its residual is below sigma
   exactly at the gammas below a threshold thr. *)

\* the bits of the mantissa
MantissaBits == 4

\* the loop is followed for at most this many steps
MaxBisections == 12

\* the number of bits of m >= 0
BitLength(m) == CHOOSE b \in 0..30 : m < 2 ^ b /\ (b = 0 \/ 2 ^ (b - 1) <= m)

\* the spacing of the floating-point numbers at m
Quantum(m) == IF BitLength(m) <= MantissaBits THEN 1 ELSE 2 ^ (BitLength(m) - MantissaBits)

\* m >= 0 rounded to the mantissa, ties to the even mantissa
RoundHalfEven(m) ==
    LET q == Quantum(m)
        low == (m \div q) * q
    IN  IF 2 * (m - low) < q THEN low
        ELSE IF 2 * (m - low) > q THEN low + q
        ELSE IF (m \div q) % 2 = 0 THEN low ELSE low + q

\* the result of an arithmetic operation, as the double that is stored
Double(a) == IF IsFin(a) THEN Fin(Sign(a.v) * RoundHalfEven(Abs(a.v))) ELSE a

\* gamma_u - gamma_l > tol, in floating point
DoubleBisectionRuns(gl, gu, tl) == FGt(Double(FSub(gu, gl)), tl)

\* (gamma_l + gamma_u) / 2, in floating point: the sum is rounded, the
\* halving is exact
DoubleMidpoint(gl, gu) == Double(FDiv(Double(FAdd(gl, gu)), Fin(2 * Scale)))

BisUppers == { Fin(Scale), Fin(2 * Scale), Fin(4 * Scale) }

BisTols == { Fin(Scale \div 64), Fin(Scale \div 8), Fin(Scale) }

\* the residual at G is not below sigma, so thr <= G
BisThresholds ==
    { Zero, Fin(Scale \div 16), Fin((3 * Scale) \div 10), Fin((7 * Scale) \div 10),
      Fin((9 * Scale) \div 10), Fin(Scale) }

BisArgs == [G : BisUppers, tol : BisTols, thr : BisThresholds]

InitBisect ==
    /\ arg = None
    /\ SolverIdle
    /\ ProxIdle
    /\ GradIdle
    /\ LayoutIdle
    /\ SgdIdle
    /\ bis_arg \in BisArgs
    /\ bis_pc = "idle"
    /\ bis_gamma_l = None /\ bis_gamma_u = None /\ bis_gamma_mid = None
    /\ bis_num_iterations = 0

\* the doubling loop has ended at gamma_u = G: gamma_l = 0; num_iterations = 0
BisEnter ==
    /\ bis_pc = "idle"
    /\ bis_arg # None
    /\ bis_gamma_u' = bis_arg.G
    /\ bis_gamma_l' = Zero
    /\ bis_num_iterations' = 0
    /\ bis_pc' = "loop"
    /\ UNCHANGED <<solver_vars, prox_vars, grad_vars, layout_vars, sgd_vars, bis_arg,
                   bis_gamma_mid>>

\* one pass of the loop body: the midpoint, the solve, the move of one bound
BisStep ==
    /\ bis_pc = "loop"
    /\ DoubleBisectionRuns(bis_gamma_l, bis_gamma_u, bis_arg.tol)
    /\ bis_num_iterations < MaxBisections
    /\ bis_gamma_mid' = DoubleMidpoint(bis_gamma_l, bis_gamma_u)
    /\ IF FLt(bis_gamma_mid', bis_arg.thr)
       THEN bis_gamma_l' = bis_gamma_mid' /\ bis_gamma_u' = bis_gamma_u
       ELSE bis_gamma_u' = bis_gamma_mid' /\ bis_gamma_l' = bis_gamma_l
    /\ bis_num_iterations' = bis_num_iterations + 1
    /\ UNCHANGED <<solver_vars, prox_vars, grad_vars, layout_vars, sgd_vars, bis_arg, bis_pc>>

\* the test of the header fails: the loop is left
BisLeave ==
    /\ bis_pc = "loop"
    /\ ~DoubleBisectionRuns(bis_gamma_l, bis_gamma_u, bis_arg.tol)
    /\ bis_pc' = "over"
    /\ UNCHANGED <<solver_vars, prox_vars, grad_vars, layout_vars, sgd_vars, bis_arg,
                   bis_gamma_l, bis_gamma_u, bis_gamma_mid, bis_num_iterations>>

NextBisect ==
    \/ BisEnter
    \/ BisStep
    \/ BisLeave

SpecBisect == InitBisect /\ [][NextBisect]_vars

------------------------------------------------------------------------------
(* Properties of lscgnm and apgd, checked under Spec *)

InLscgnm == arg.fn = "lscgnm"

\* C1: in lscgnm, whenever the requested sigma is strictly less than sigma0,
\* the residual of the baseline solve at gamma0, the call returns (None, -1)
\* and has made no call of apgd but the baseline solve.
C1_InfeasibleSentinel ==
    (InLscgnm /\ sigma0 # None /\ FLt(arg.sigma, sigma0)) =>
        /\ pc = "done"
        /\ out = [kind |-> "infeasible", x |-> None, gamma |-> Fin(-Scale)]
        /\ Len(calls) = 1
        /\ calls[1].site = "baseline" /\ calls[1].gamma = gamma0

\* a call that ended infeasible after a baseline solve that iterated
C1_Witness ==
    /\ InLscgnm /\ sigma0 # None /\ FLt(arg.sigma, sigma0)
    /\ pc = "done" /\ out.kind = "infeasible"
    /\ calls[1].count > 0 /\ FGt(arg.sigma, Zero)

\* C2: in lscgnm, whenever sigma >= ||y||_2 the call returns the all-zero
\* vector of the length of a row of A together with gamma = +infinity,
\* whatever A, gnrls_x0 and gnrls_maxit are.
C2_TrivialWheneverSigmaCoversY ==
    (InLscgnm /\ pc = "done" /\ FGe(arg.sigma, Norm(arg.y))) =>
        out = [kind |-> "trivial", x |-> Zeros(NCols(arg.A)), gamma |-> PosInf]

\* C3: whenever lscgnm returns a coefficient vector with a finite gamma (the
\* bracket-and-bisect outcome), that vector satisfies ||A x - y||_2 <= sigma.
C3_ReturnedVectorMeetsSigma ==
    (InLscgnm /\ pc = "done" /\ out.kind = "bisected") =>
        FLe(Residual(arg.A, out.x, arg.y), arg.sigma)

\* the first pass of the loop whose convergence test succeeded, 0 if none
FirstSuccess == IF \E j \in 1..Len(tests) : tests[j]
                THEN CHOOSE j \in 1..Len(tests) :
                         tests[j] /\ \A h \in 1..(j - 1) : ~tests[h]
                ELSE 0

\* C4: when apgd returns, its count is maxit+1 exactly if the convergence
\* test failed in each of the maxit passes, and then the vector returned is
\* the last iterate x; if the test first succeeded in the pass of index i,
\* it returns (x_next, i) with 0 <= i < maxit; the count is never maxit.
C4_CountTellsConvergence ==
    pc = "ret" =>
        /\ ret.count # maxit
        /\ (ret.count = maxit + 1) <=>
               (Len(tests) = maxit /\ \A j \in 1..Len(tests) : ~tests[j])
        /\ (ret.count = maxit + 1) => ret.x = x
        /\ (ret.count # maxit + 1) =>
               /\ FirstSuccess = Len(tests)
               /\ ret.count = FirstSuccess - 1
               /\ 0 <= ret.count /\ ret.count < maxit
               /\ ret.x = x_next
               /\ ConvergenceTest(x_next, x, tol)

\* both kinds of return: the test succeeded in the last allowed pass, after
\* failing before; and the sentinel after two failed passes
C4_Witness ==
    /\ pc = "ret" /\ maxit = 2
    /\ \/ ret.count = 1 /\ tests = <<FALSE, TRUE>>
       \/ ret.count = 3 /\ tests = <<FALSE, FALSE>> /\ ret.x # calls[Len(calls)].x

\* C5: apgd called with maxit = 0 returns (x0, 1) at once: the vector it was
\* given and the count maxit+1 = 1, without a call of gradf or of proxf.
C5_ZeroCapReturnsStart ==
    (pc = "ret" /\ maxit = 0) =>
        /\ ret = [x |-> calls[Len(calls)].x, count |-> 1]
        /\ ngrad = 0 /\ nprox = 0 /\ tests = <<>>
        /\ x_next = None

\* a return with maxit = 0 from a start that is not the zero vector
C5_Witness ==
    /\ pc = "ret" /\ maxit = 0 /\ ret.count = 1
    /\ ret.x # Zeros(Len(ret.x))


\* the sites of the calls made so far, in order
Sites == [k \in 1..Len(calls) |-> calls[k].site]

\* C6: the bracketing phase of lscgnm is entered exactly when
\* sigma0 <= sigma < ||y||_2; its trials are gamma_u = 1, 2, 4, 8, ... in
\* this order, one solve each; every trial before the last had a residual
\* <= sigma; the phase stops at the first trial whose residual is > sigma,
\* and the bisection starts from the bracket [0, gamma_u] of that trial.
C6_BracketingPhase ==
    InLscgnm =>
        LET D == Doublings
            n == Len(D)
        IN  /\ (n > 0) <=> (/\ sigma0 # None
                            /\ FLe(sigma0, arg.sigma)
                            /\ FLt(arg.sigma, sigma_max))
            /\ \A k \in 1..n : D[k].gamma = Fin((2 ^ (k - 1)) * Scale)
            /\ \A k \in 1..(n - 1) :
                   /\ D[k].returned
                   /\ FLe(Residual(arg.A, D[k].result, arg.y), arg.sigma)
            /\ \A k \in 1..Len(calls) :
                   calls[k].site = "doubling" => \A h \in 1..k : Sites[h] # "bisect"
            /\ (gamma_l # None) =>
                   /\ n > 0 /\ D[n].returned
                   /\ FGt(Residual(arg.A, D[n].result, arg.y), arg.sigma)
                   /\ num_iterations = 0 => (gamma_l = Zero /\ gamma_u = D[n].gamma)

\* the bracket was found at the third trial and the bisection has started
C6_Witness ==
    /\ InLscgnm /\ Len(Doublings) = 3 /\ gamma_l = Zero /\ num_iterations = 0
    /\ gamma_u = Fin(4 * Scale) /\ pc = "apgd" /\ site = "bisect"

SuppliedIterate == IF InLscgnm THEN arg.gnrls_x0 ELSE Zeros(NCols(arg.A))
SuppliedBlock(k) ==
    IF InLscgnm THEN arg.y ELSE IF InDriver THEN arg.block ELSE arg.data[k]

\* C8: every call of apgd made by lscgnm (baseline, doubling, bisection) and
\* by apgd_driver (one per block) starts from the initial iterate the caller
\* supplied, with the block as supplied; what a solve returns depends only on
\* its gamma and its block, not on the solves made before.
C8_NoWarmStart ==
    /\ \A k \in 1..Len(calls) :
           /\ calls[k].x = SuppliedIterate
           /\ calls[k].y = SuppliedBlock(k)
    /\ \A h, k \in 1..Len(calls) :
           (/\ calls[h].returned /\ calls[k].returned
            /\ calls[h].gamma = calls[k].gamma /\ calls[h].y = calls[k].y) =>
               /\ calls[h].result = calls[k].result
               /\ calls[h].count = calls[k].count

\* a third solve is started after two that returned something else than the
\* start; and a driver solves the same block twice
C8_Witness ==
    /\ Len(calls) >= 3
    /\ calls[1].returned /\ calls[1].result # calls[1].x
    /\ calls[2].returned /\ calls[2].result # calls[2].x
    /\ InLscgnm \/ calls[1].y = calls[2].y

\* C9: the doubling loop of lscgnm is guarded by an iteration cap: when the
\* residual never exceeds sigma, lscgnm stops after a bounded number of
\* doublings and reports a solver error.  Stated for the doublings the model
\* follows: after MaxDoublings trials no further trial is started.
C9_DoublingLoopCapped ==
    [][ (InLscgnm /\ pc = "ret" /\ site = "doubling" /\ Len(Doublings) >= MaxDoublings)
            => ~(pc' = "apgd" /\ site' = "doubling") ]_vars

------------------------------------------------------------------------------
(* Properties of prox12norm, checked under SpecProx *)

\* C10: prox12norm returns a group whose Euclidean norm is exactly zero as
\* the zero group for every threshold gamma >= 0, gamma = 0 too; no NaN
\* appears in the output.
C10_ZeroGroupStaysZero ==
    (prox_out # None) =>
        \A g \in 1..(Len(prox_x) \div prox_d) :
            (Norm(Group(prox_x, g, prox_d)) = Zero /\ FGe(prox_gamma, Zero)) =>
                Group(prox_out, g, prox_d) = Zeros(prox_d)

\* the groups of a vector u reshaped to rows of dd entries
Groups(u, dd) == 1..(Len(u) \div dd)

\* C11: prox12norm is the identity at threshold zero: prox12norm(x, 0, d) = x
\* for every x whose length is a multiple of d, all-zero groups included.
C11_IdentityAtZeroThreshold ==
    (prox_out # None /\ prox_gamma = Zero) => prox_out = prox_x

\* C12: prox12norm thresholds each group of d entries on its own: the output
\* has the length of the input; the image of a group is what prox12norm gives
\* for that group alone; a group of norm r > 0 becomes the zero group when
\* gamma >= r (gamma = r too) and the group times (1 - gamma/r) when gamma < r.
C12_GroupThresholding ==
    (prox_out # None) =>
        /\ Len(prox_out) = Len(prox_x)
        /\ \A g \in Groups(prox_x, prox_d) :
               LET grp == Group(prox_x, g, prox_d)
                   img == Group(prox_out, g, prox_d)
                   r == Norm(grp)
               IN  /\ img = prox12norm(grp, prox_gamma, prox_d)
                   /\ (FGt(r, Zero) /\ FGe(prox_gamma, r)) => img = Zeros(prox_d)
                   /\ (FGt(r, Zero) /\ FLt(prox_gamma, r)) =>
                          img = VScale(FSub(One, FDiv(prox_gamma, r)), grp)

\* one group at the boundary gamma = r, another with 0 < gamma < r, and a
\* threshold larger than the norm of a third vector's group
C12_Witness ==
    /\ prox_out # None /\ prox_d = 2
    /\ Norm(Group(prox_x, 1, 2)) = prox_gamma /\ FGt(prox_gamma, Zero)
    /\ FLt(prox_gamma, Norm(Group(prox_x, 2, 2)))
    /\ Group(prox_out, 1, 2) = Zeros(2)
    /\ Group(prox_out, 2, 2) # Zeros(2) /\ Group(prox_out, 2, 2) # Group(prox_x, 2, 2)

------------------------------------------------------------------------------
(* Properties of the entry calls, checked under Spec *)

\* C13: a degenerate dictionary (L = 0) is detected before apgd is entered:
\* with L = 0 no call of apgd is made and 1/L is never computed; the entry
\* call ends with a fatal error.
C13_DegenerateDictionaryRejected ==
    (L = Zero) =>
        /\ calls = <<>>
        /\ step_size = None
        /\ pc = "done"
        /\ out.kind = "error"

\* C15: apgd_driver returns one coefficient vector per input block, in
\* block order: for n blocks the result has n entries, and entry k is what
\* apgd returned for block k.
C15_OneVectorPerBlock ==
    (pc = "done" /\ arg.fn = "apgd_driver") =>
        /\ Len(out.x) = Len(arg.data)
        /\ \A k \in 1..Len(arg.data) :
               /\ calls[k].y = arg.data[k]
               /\ out.x[k] = calls[k].result

\* C16: lscgnm_driver returns a list with one entry per sigma of sigma_list,
\* in list order, and every entry is a coefficient vector of the length of a
\* row of A, for a sigma that lscgnm resolves with gamma = -1 or +inf too.
C16_OneVectorPerSigma ==
    (InDriver /\ pc = "done" /\ out.kind = "result") =>
        /\ Len(out.x) = Len(sigma_list)
        /\ \A n \in 1..Len(out.x) :
               /\ out.x[n] # None
               /\ Len(out.x[n]) = NCols(arg.A)

\* C18: for fixed A, y, L, x0, tol and maxit the residual ||A x - y||_2 of
\* the vector apgd returns is non-decreasing in gamma: of two solves of one
\* run with the same block and the same start, the one with the smaller or
\* equal gamma has the smaller or equal residual.
C18_ResidualMonotoneInGamma ==
    \A h, k \in 1..Len(calls) :
        (/\ calls[h].returned /\ calls[k].returned
         /\ calls[h].y = calls[k].y /\ calls[h].x = calls[k].x
         /\ FLe(calls[h].gamma, calls[k].gamma)) =>
            FLe(Residual(arg.A, calls[h].result, calls[h].y),
                Residual(arg.A, calls[k].result, calls[k].y))

\* C20: in one run of a driver (apgd_driver, lscgnm_driver) the Lipschitz
\* constant L of the dictionary is computed exactly once, and that value is
\* the L of every call of apgd of the run.
C20_LipschitzComputedOnce ==
    (arg.fn \in {"apgd_driver", "lscgnm_driver"} /\ pc # "start") =>
        /\ Len(lips) = 1
        /\ \A k \in 1..Len(calls) : calls[k].L = lips[1]

------------------------------------------------------------------------------
(* Properties of grad_least_squares, checked under SpecGrad *)

\* C14: grad_least_squares signals a shape-mismatch error, and returns no
\* value, whenever len(x) differs from the number of columns of A or len(y)
\* differs from the number of rows of A, or y is given as a column.
C14_ShapeMismatchSignalled ==
    (/\ grad_out # None
     /\ \/ Len(grad_x) # NCols(grad_A)
        \/ Len(grad_y.v) # NRows(grad_A)
        \/ grad_y.ndim = 2) => grad_out = ValueError

------------------------------------------------------------------------------
(* Properties of the coefficient layout, checked under SpecLayout *)

\* C17: the cosine and the sine coefficient of every frequency are adjacent
\* and get_A, prox12norm (d = 2) and generate_spectograms agree on it: for the
\* frequency of index n, column 2n of A is its cosine and column 2n+1 its
\* sine; prox12norm thresholds the coefficients 2n and 2n+1 as one group; the
\* magnitude of index n is computed from exactly the coefficients 2n, 2n+1.
C17_AdjacentPairs ==
    (frequencies # None /\ weights # None) =>
        \A n \in 0..(Len(frequencies) - 1) :
            LET u == weights[1]
                pair == <<u[2 * n + 1], u[2 * n + 2]>>
            IN  /\ (A # None) =>
                       \A j \in 0..(l - 1) :
                           /\ A[j + 1][2 * n + 1] = CosAtom(frequencies[n + 1], j)
                           /\ A[j + 1][2 * n + 2] = SinAtom(frequencies[n + 1], j)
                /\ (prox_out # None) =>
                       <<prox_out[2 * n + 1], prox_out[2 * n + 2]>>
                           = VScale(ShrinkFactor(prox_gamma, Norm(pair)), pair)
                /\ (spectrograms # None) =>
                       spectrograms[1][n + 1]
                           = FSqrt(FAdd(FMul(pair[1], pair[1]), FMul(pair[2], pair[2])))

\* two frequencies, all three functions have been applied, and the second
\* pair is kept by the threshold while the first is not
C17_Witness ==
    /\ frequencies # None /\ Len(frequencies) = 2 /\ l = 2
    /\ A # None /\ prox_out # None /\ spectrograms # None
    /\ spectrograms[1][1] # spectrograms[1][2]
    /\ Group(prox_out, 1, 2) = Zeros(2) /\ Group(prox_out, 2, 2) # Zeros(2)


------------------------------------------------------------------------------
(* Properties of sgd_mlogistic_svs, checked under SpecSgd *)

\* the number of positive multiples of ss that are smaller than kk
MultiplesBelow(kk, ss) == IF kk = 0 THEN 0 ELSE (kk - 1) \div ss

\* C19 (as amended): the SVS set is evaluated exactly at the positive
\* multiples of s that are smaller than maxit, on the average of the iterates
\* made so far; the call stops at the first evaluation, from the second on,
\* whose count of misclassified is not strictly smaller than the one before,
\* and returns the average of all iterates with that k, a multiple of s that
\* is at least 2s; a call that never stops so returns the average with maxit.
C19_EarlyStopping ==
    sgd_pc \in {"loop", "done"} =>
        LET n_evals == Len(sgd_evals)
            early == sgd_pc = "done" /\ sgd_k < sgd_arg.maxit
            improving(upto) ==
                \A n \in 2..upto :
                    sgd_misclassified_list[n] < sgd_misclassified_list[n - 1]
        IN  /\ Len(sgd_x_list) = sgd_k
            /\ Len(sgd_misclassified_list) = n_evals
            /\ \A n \in 1..n_evals :
                  /\ sgd_evals[n] = n * sgd_s
                  /\ sgd_evals[n] < sgd_arg.maxit
                  /\ sgd_misclassified_list[n] =
                        Misclassified(sgd_arg.svsX, MeanOf(SubSeq(sgd_x_list, 1, n * sgd_s)))
            /\ n_evals = MultiplesBelow(sgd_k, sgd_s) + (IF early THEN 1 ELSE 0)
            /\ early =>
                  /\ n_evals >= 2
                  /\ sgd_k = n_evals * sgd_s
                  /\ sgd_k >= 2 * sgd_s
                  /\ ~(sgd_misclassified_list[n_evals] < sgd_misclassified_list[n_evals - 1])
                  /\ improving(n_evals - 1)
                  /\ sgd_ret = [x |-> MeanOf(sgd_x_list), k |-> sgd_k]
            /\ ~early => improving(n_evals)
            /\ (sgd_pc = "done" /\ ~early) =>
                  /\ sgd_k = sgd_arg.maxit
                  /\ sgd_ret = [x |-> MeanOf(sgd_x_list), k |-> sgd_arg.maxit]

\* a call that stopped at the third evaluation, after an improvement at the
\* second, with iterates that differ
C19_Witness ==
    /\ sgd_pc = "done"
    /\ sgd_k < sgd_arg.maxit
    /\ Len(sgd_evals) = 3
    /\ sgd_misclassified_list[2] < sgd_misclassified_list[1]
    /\ sgd_ret.k = 3 * sgd_s
    /\ \E n \in 1..Len(sgd_x_list) : sgd_x_list[n] # sgd_ret.x

\* C19 (as stated): the SVS set is evaluated at every positive multiple of s
\* that k takes
C19_EvaluatedAtEveryMultiple ==
    sgd_pc = "done" =>
        \A n \in 1..(sgd_k \div sgd_s) : n <= Len(sgd_evals) /\ sgd_evals[n] = n * sgd_s


------------------------------------------------------------------------------
(* Further properties of apgd and lscgnm, checked under Spec *)

\* the call of apgd that runs or returned last
ThisCall == calls[Len(calls)]

\* C21: every call of apgd starts with t = 1 and x = z = the x0 it was given,
\* whatever calls were made before; step_size is 1/L in every state of the
\* run; a pass that goes on sets t to t_new computed from the t before it and
\* z to x_next + ((t - 1)/t_new)(x_next - x) with that old t, so that the
\* weight is 0 in the first pass and z = x_next = x after it.
C21_FreshMomentum ==
    /\ [](pc \in {"apgd", "ret"} =>
            /\ step_size = FDiv(One, L)
            /\ step_size = FDiv(One, ThisCall.L)
            /\ (pc = "apgd" /\ i = 0) => (t = One /\ z = ThisCall.x /\ x = ThisCall.x)
            /\ (pc = "apgd" /\ i = 1) => (z = x /\ z = x_next /\ t = MomentumNext(One)))
    /\ [][ (pc = "apgd" /\ pc' = "apgd" /\ i' = i + 1) =>
              /\ (i = 0) => FDiv(FSub(t, One), t') = Zero
              /\ t' = MomentumNext(t)
              /\ x' = x_next'
              /\ z' = VAdd(x_next', VScale(FDiv(FSub(t, One), t'), VSub(x_next', x)))
              /\ step_size' = step_size
       ]_vars

\* a later call of apgd, after one that moved, has made two passes, and the
\* second pass extrapolated
C21_Witness ==
    /\ pc = "apgd" /\ i = 2 /\ Len(calls) >= 2
    /\ calls[1].result # calls[1].x
    /\ z # x /\ AllFin(z)


\* the entry call runs lscgnm, itself or through lscgnm_driver
RunsLscgnm == arg.fn \in {"lscgnm", "lscgnm_driver"}

\* history: the calls of apgd of the running call of lscgnm
OwnCalls == SubSeq(calls, LastBaseline, Len(calls))

\* the gamma_u at which the doubling loop ended
FoundUpper == Doublings[Len(Doublings)].gamma

\* the residual the running call of lscgnm observed with the k-th of its solves
Observed(k) == Residual(Arg_A, OwnCalls[k].result, Arg_y)

\* C22: from the entry of the bisection loop of lscgnm on,
\* 0 <= gamma_l < gamma_u <= G with G the gamma_u found by the doubling loop;
\* every residual observed at the current gamma_u is >= sigma; and gamma_l
\* is 0 or the gamma of a bisection solve whose residual was < sigma.
C22_BracketInvariant ==
    (RunsLscgnm /\ gamma_l # None) =>
        /\ FLe(Zero, gamma_l) /\ FLt(gamma_l, gamma_u) /\ FLe(gamma_u, FoundUpper)
        /\ \E k \in 1..Len(OwnCalls) :
               /\ OwnCalls[k].returned /\ OwnCalls[k].gamma = gamma_u
               /\ OwnCalls[k].site \in {"doubling", "bisect"}
        /\ \A k \in 1..Len(OwnCalls) :
               (OwnCalls[k].returned /\ OwnCalls[k].gamma = gamma_u) =>
                   FGe(Observed(k), Arg_sigma)
        /\ \/ gamma_l = Zero
           \/ \E k \in 1..Len(OwnCalls) :
                  /\ OwnCalls[k].site = "bisect" /\ OwnCalls[k].returned
                  /\ OwnCalls[k].gamma = gamma_l
                  /\ FLt(Observed(k), Arg_sigma)

\* in the loop, after steps that moved each bound, a further midpoint solve runs
C22_Witness ==
    /\ RunsLscgnm /\ gamma_l # None
    /\ pc = "apgd" /\ site = "bisect"
    /\ FGt(gamma_l, Zero) /\ FLt(gamma_u, FoundUpper)
    /\ num_iterations >= 2


------------------------------------------------------------------------------
(* Termination of the bisection loop of lscgnm, checked under SpecBisect *)

\* the least n with G / 2^n <= tl, for G > tl > 0
LeastHalvings(G, tl) ==
    CHOOSE n \in 0..(2 * FracBits + 2) :
        /\ G.v <= tl.v * (2 ^ n)
        /\ \A m \in 0..(n - 1) : G.v > tl.v * (2 ^ m)

\* C23: with tol > 0 and a bracket [0, G] wider than tol, the bisection loop
\* of lscgnm ends whatever the residuals: after k steps the bracket is
\* exactly G / 2^k wide, and the loop is left after exactly n solves, n the
\* least integer with G / 2^n <= tol; so it never makes more than n.
C23_ExactlyNSolves ==
    (/\ bis_pc \in {"loop", "over"}
     /\ FGt(bis_arg.tol, Zero) /\ FGt(bis_arg.G, bis_arg.tol)) =>
        /\ (bis_gamma_u.v - bis_gamma_l.v) * (2 ^ bis_num_iterations) = bis_arg.G.v
        /\ bis_num_iterations <= LeastHalvings(bis_arg.G, bis_arg.tol)
        /\ (bis_pc = "over") => bis_num_iterations = LeastHalvings(bis_arg.G, bis_arg.tol)


------------------------------------------------------------------------------
(* Further properties of the entry calls, checked under Spec *)

\* C24: a call of lscgnm that passed both checks (sigma0 <= sigma < ||y||)
\* and whose doubling loop ended returns a pair of a coefficient vector and a
\* finite gamma, also when the bracket [0, gamma_u] is no wider than tol and
\* no bisection step is made.
C24_BracketedCallReturnsPair ==
    (InLscgnm /\ pc = "done" /\ gamma_l # None) =>
        /\ out.kind = "bisected"
        /\ out.x # None /\ Len(out.x) = NCols(arg.A)
        /\ IsFin(out.gamma)


\* history: the midpoint solves of the running call of lscgnm
Bisections == SelectSeq(OwnCalls, LAMBDA c : c.site = "bisect")

\* lscgnm has returned from its bisection
Bisected == RunsLscgnm /\ out # None /\ out.kind = "bisected"

Outcomes == {"infeasible", "trivial", "bisected", "UnboundLocalError", "result"}

\* C26: lscgnm and apgd_driver use the vector apgd returns whatever count it
\* comes with, maxit+1 too: it gives sigma0 and the feasibility decision, the
\* decision of every doubling trial and of every bisection step, the vector
\* returned, and the entry collected per block; and an outcome holds a kind,
\* a vector or a list of vectors and a gamma, nothing about the counts.
C26_CountNeverInspected ==
    /\ [](out # None => (DOMAIN out = {"kind", "x", "gamma"} /\ out.kind \in Outcomes))
    /\ [][ (pc = "ret") =>
              LET r == ret.x
                  seen == Residual(Arg_A, r, Arg_y)
              IN  /\ (site = "baseline") =>
                         /\ lscgnm_x' = r /\ sigma0' = seen
                         /\ (out' # None /\ out'.kind = "infeasible") <=> ~FGe(Arg_sigma, seen)
                  /\ (site = "doubling") =>
                         /\ lscgnm_x' = r
                         /\ (pc' = "apgd" /\ site' = "doubling") <=> ~FGt(seen, Arg_sigma)
                  /\ (site = "bisect") =>
                         /\ x_opt' = r
                         /\ IF FLt(seen, Arg_sigma)
                            THEN gamma_l' = gamma_mid /\ gamma_u' = gamma_u
                            ELSE gamma_u' = gamma_mid /\ gamma_l' = gamma_l
                         /\ (out' # None) => (out'.kind = "bisected" /\ out'.x = r)
                  /\ (site = "block") => result' = Append(result, r)
       ]_vars

\* lscgnm returned from its bisection although no solve of the run converged:
\* the baseline, the doubling trials and the midpoints all came with maxit+1
\* after iterating
C26_Witness ==
    /\ InLscgnm /\ pc = "done" /\ out.kind = "bisected"
    /\ arg.gnrls_maxit > 0 /\ num_iterations >= 2
    /\ \A k \in 1..Len(calls) :
           calls[k].count = arg.gnrls_maxit + 1 /\ calls[k].result # calls[k].x


------------------------------------------------------------------------------
(* Termination of sgd_mlogistic_svs, checked under SpecSgdCounts *)

\* C27: sgd_mlogistic_svs returns in every run: every count of misclassified
\* points lies in 0..s and the training goes on past an evaluation, from the
\* second on, only when the count went down, so there are at most s + 2
\* evaluations and the call returns with k <= (s + 2) * s or with k = maxit,
\* whichever comes first; a call that did not stop early returns maxit.
C27_SgdTerminates ==
    /\ [](sgd_pc \in {"loop", "done"} =>
            /\ \A n \in 1..Len(sgd_misclassified_list) :
                   sgd_misclassified_list[n] \in 0..sgd_s
            /\ Len(sgd_evals) <= sgd_s + 2
            /\ sgd_k <= sgd_arg.maxit /\ sgd_k <= (sgd_s + 2) * sgd_s
            /\ (sgd_pc = "done") =>
                   /\ sgd_ret.k = sgd_k
                   /\ \/ sgd_k = sgd_arg.maxit
                      \/ /\ sgd_k < sgd_arg.maxit
                         /\ Len(sgd_evals) >= 2 /\ sgd_k = Len(sgd_evals) * sgd_s
                         /\ sgd_misclassified_list[Len(sgd_evals)] >=
                                sgd_misclassified_list[Len(sgd_evals) - 1])
    /\ [][ (sgd_pc = "loop" /\ sgd_pc' = "loop" /\ Len(sgd_evals') = Len(sgd_evals) + 1
               /\ Len(sgd_evals) >= 1) =>
              sgd_misclassified_list'[Len(sgd_evals')] <
                  sgd_misclassified_list'[Len(sgd_evals)] ]_vars
    /\ <>(sgd_pc = "done")

\* the latest early stop: s = 3, the counts went 3, 2, 1, 0, and the fifth
\* evaluation, the (s + 2)-th, ended a call that had an iteration left
C27_Witness ==
    /\ sgd_pc = "done" /\ sgd_s = 3
    /\ sgd_misclassified_list = <<3, 2, 1, 0, 0>>
    /\ sgd_k = (sgd_s + 2) * sgd_s /\ sgd_k < sgd_arg.maxit


------------------------------------------------------------------------------
(* The group size of lscgnm_driver, checked under Spec *)

\* C28: lscgnm_driver solves with the group size its caller supplied: every
\* proximal gradient step of every solve of the sweep groups the entries by
\* the value passed as the parameter d.
C28_DriverUsesSuppliedGroupSize ==
    [][ (InDriver /\ pc = "apgd" /\ LoopRuns(i, maxit)) =>
            x_next' = ProxGradStep(arg.A, y, arg.d, z, gamma, step_size) ]_vars

====
